---- MODULE Spec2Model ----
(***************************************************************************)
(* BooleanSearcher (search/searchers/search_boolean.go): the merge-join of *)
(* a must, a should and a must-not stream of document matches.             *)
(*                                                                         *)
(* Document identifiers are the integers 1..MaxID, Nil (0) is the absent   *)
(* identifier and the absent match pointer.  A DocumentMatch is an entry   *)
(* of the table objs, addressed by a positive integer.                     *)
(***************************************************************************)
EXTENDS Integers, Sequences, FiniteSets, TLC

MaxID == 3

Nil == 0

IDs == 1 .. MaxID

MinValues == {0, 1}

RECURSIVE SortedSeq(_)
SortedSeq(S) ==
  IF S = {} THEN << >>
  ELSE LET m == CHOOSE x \in S : \A y \in S : x <= y
       IN  << m >> \o SortedSeq(S \ {m})

Elems(seq) == { seq[i] : i \in 1 .. Len(seq) }

(***************************************************************************)
(* A child searcher: a cursor over a strictly increasing stream.  pos is   *)
(* the index of the match the child is positioned at (0 before the first   *)
(* pull, Len(ids)+1 once the end has been returned).                       *)
(***************************************************************************)
NoSearcher == [present |-> FALSE, ids |-> << >>, pos |-> 0, min |-> 0, closed |-> FALSE]

NewSearcher(S, m) == [present |-> TRUE, ids |-> SortedSeq(S), pos |-> 0, min |-> m, closed |-> FALSE]

Current(c) == IF c.pos \in 1 .. Len(c.ids) THEN c.ids[c.pos] ELSE Nil

SearcherNext(c) ==
  [c EXCEPT !.pos = IF c.pos <= Len(c.ids) THEN c.pos + 1 ELSE c.pos]

SearcherAdvance(c, ID) ==
  LET from == IF c.pos = 0 THEN 1 ELSE c.pos
      hits == { i \in from .. Len(c.ids) : c.ids[i] >= ID }
  IN  [c EXCEPT !.pos = IF hits = {} THEN Len(c.ids) + 1
                        ELSE CHOOSE i \in hits : \A j \in hits : i <= j]

VARIABLES mustSearcher, shouldSearcher, mustNotSearcher,
          currMust, currShould, currMustNot, currentID, initialized,
          objs, audit, closed, result, out, trace, onlyNext, call

vars == << mustSearcher, shouldSearcher, mustNotSearcher,
           currMust, currShould, currMustNot, currentID, initialized,
           objs, audit, closed, result, out, trace, onlyNext, call >>

(***************************************************************************)
(* The searcher and its search context as one value, threaded through the  *)
(* operators below; fuse is the number of the child call that fails        *)
(* (0: no child call fails), calls the number of child calls made so far   *)
(* in the call under way and error the child whose call failed.            *)
(***************************************************************************)
Children == << "mustSearcher", "shouldSearcher", "mustNotSearcher" >>

Self ==
  [mustSearcher |-> mustSearcher, shouldSearcher |-> shouldSearcher,
   mustNotSearcher |-> mustNotSearcher,
   currMust |-> currMust, currShould |-> currShould, currMustNot |-> currMustNot,
   currentID |-> currentID, initialized |-> initialized,
   objs |-> objs, audit |-> audit, fuse |-> 0, calls |-> 0, error |-> "none"]

Fused(b, f) == [b EXCEPT !.fuse = f]

NoAudit ==
  [doublePut |-> FALSE, readAfterPut |-> FALSE, putReturned |-> FALSE,
   putNil |-> FALSE, nilDeref |-> FALSE, leaked |-> FALSE, badCons |-> FALSE]

Flag(b, f) == [b EXCEPT !.audit[f] = TRUE]

(***************************************************************************)
(* DocumentMatchPool.Put and the reads of a match.                         *)
(***************************************************************************)
Put(b, d) ==
  IF d = Nil THEN Flag(b, "putNil")
  ELSE LET b1 == IF b.objs[d].puts > 0 THEN Flag(b, "doublePut") ELSE b
           b2 == IF b.objs[d].ret THEN Flag(b1, "putReturned") ELSE b1
       IN  [b2 EXCEPT !.objs[d].puts = @ + 1]

Read(b, d) ==
  IF d = Nil THEN Flag(b, "nilDeref")
  ELSE IF b.objs[d].puts > 0 THEN Flag(b, "readAfterPut")
  ELSE b

IndexInternalID(b, d) == IF d = Nil THEN Nil ELSE b.objs[d].IndexInternalID

NewObj(b) ==
  CHOOSE n \in 1 .. (Cardinality(DOMAIN b.objs) + 1) :
    /\ n \notin DOMAIN b.objs
    /\ \A m \in 1 .. (n - 1) : m \in DOMAIN b.objs

(***************************************************************************)
(* One call of a child: child is the name of the field that holds it, c    *)
(* the child after the call.  A match the child returns is a DocumentMatch *)
(* no one else holds.                                                      *)
(***************************************************************************)
Pull(b, child, c) ==
  IF b.fuse = 1
    THEN [b |-> [b EXCEPT !.fuse = 0, !.calls = @ + 1, !.error = child],
          m |-> Nil, err |-> TRUE]
  ELSE LET b1 == [b EXCEPT ![child] = c, !.fuse = IF @ > 1 THEN @ - 1 ELSE 0,
                           !.calls = @ + 1]
       IN  IF Current(c) = Nil THEN [b |-> b1, m |-> Nil, err |-> FALSE]
           ELSE LET d == NewObj(b1)
                    rec == [IndexInternalID |-> Current(c), src |-> child,
                            puts |-> 0, ret |-> FALSE]
                IN  [b |-> [b1 EXCEPT !.objs = (d :> rec) @@ b1.objs],
                     m |-> d, err |-> FALSE]

CallNext(b, child) == Pull(b, child, SearcherNext(b[child]))

CallAdvance(b, child, ID) == Pull(b, child, SearcherAdvance(b[child], ID))

(* SetCurrentID without the branch for a searcher that has no must clause. *)
SetCurrentID_mustOnly(b) ==
  IF b.mustSearcher.present /\ b.currMust # Nil
    THEN [b EXCEPT !.currentID = IndexInternalID(b, b.currMust)]
  ELSE [b EXCEPT !.currentID = Nil]

(* SetCurrentID that lets the must-not match drive a searcher that has     *)
(* neither a must nor a should clause.                                     *)
SetCurrentID_mustNotDrives(b) ==
  IF b.mustSearcher.present /\ b.currMust # Nil
    THEN [b EXCEPT !.currentID = IndexInternalID(b, b.currMust)]
  ELSE IF ~b.mustSearcher.present /\ b.currShould # Nil
    THEN [b EXCEPT !.currentID = IndexInternalID(b, b.currShould)]
  ELSE IF ~b.mustSearcher.present /\ ~b.shouldSearcher.present /\ b.currMustNot # Nil
    THEN [b EXCEPT !.currentID = IndexInternalID(b, b.currMustNot)]
  ELSE [b EXCEPT !.currentID = Nil]

(***************************************************************************)
(* currentID from the driving clause.                                      *)
(***************************************************************************)
SetCurrentID(b) ==
  IF b.mustSearcher.present /\ b.currMust # Nil
    THEN [b EXCEPT !.currentID = IndexInternalID(b, b.currMust)]
  ELSE IF ~b.mustSearcher.present /\ b.currShould # Nil
    THEN [b EXCEPT !.currentID = IndexInternalID(b, b.currShould)]
  ELSE [b EXCEPT !.currentID = Nil]

(***************************************************************************)
(* Plumbing of a call's outcome: Assign is "s.curr, err = child.call()";   *)
(* a step that takes an outcome r starts with "if err != nil return err".  *)
(***************************************************************************)
OK(b) == [b |-> b, err |-> FALSE]

Assign(c, curr) == [b |-> [c.b EXCEPT ![curr] = c.m], err |-> c.err]

ReadIf(b, d) == IF d # Nil THEN Read(b, d) ELSE b

PutIf(b, d) == IF d # Nil THEN Put(b, d) ELSE b

PutUnless(b, d, skipReturn) == IF d # skipReturn THEN Put(b, d) ELSE b

(***************************************************************************)
(* initSearchers                                                           *)
(***************************************************************************)
InitChild(b, child, curr) ==
  IF ~b[child].present THEN OK(b)
  ELSE Assign(CallNext(PutIf(b, b[curr]), child), curr)

InitShould(r) == IF r.err THEN r ELSE InitChild(r.b, "shouldSearcher", "currShould")

InitMustNot(r) == IF r.err THEN r ELSE InitChild(r.b, "mustNotSearcher", "currMustNot")

(* InitDone that leaves currentID as it was.                               *)
InitDone_noID(r) == IF r.err THEN r ELSE OK([r.b EXCEPT !.initialized = TRUE])

InitDone(r) == IF r.err THEN r ELSE OK([SetCurrentID(r.b) EXCEPT !.initialized = TRUE])

initSearchers(b) ==
  InitDone(InitMustNot(InitShould(InitChild(b, "mustSearcher", "currMust"))))

(***************************************************************************)
(* advanceNextMust                                                         *)
(***************************************************************************)
Recompute(r) == IF r.err THEN r ELSE OK(SetCurrentID(r.b))

(* advanceNextMust that puts the superseded match without looking at       *)
(* skipReturn.                                                             *)
advanceNextMust_noSkip(b, skipReturn) ==
  Recompute(IF b.mustSearcher.present
         THEN Assign(CallNext(Put(b, b.currMust), "mustSearcher"), "currMust")
       ELSE IF ~b.shouldSearcher.present
         THEN [b |-> Flag(b, "nilDeref"), err |-> TRUE]
       ELSE Assign(CallNext(Put(b, b.currShould), "shouldSearcher"), "currShould"))

(* advanceNextMust that leaves the driving clause where it is when its     *)
(* match is the one being returned.                                        *)
advanceNextMust_noPull(b, skipReturn) ==
  Recompute(IF b.mustSearcher.present
         THEN IF b.currMust = skipReturn THEN OK(b)
              ELSE Assign(CallNext(Put(b, b.currMust), "mustSearcher"), "currMust")
       ELSE IF ~b.shouldSearcher.present
         THEN [b |-> Flag(b, "nilDeref"), err |-> TRUE]
       ELSE IF b.currShould = skipReturn THEN OK(b)
       ELSE Assign(CallNext(Put(b, b.currShould), "shouldSearcher"), "currShould"))

advanceNextMust(b, skipReturn) ==
  Recompute(IF b.mustSearcher.present
         THEN Assign(CallNext(PutUnless(b, b.currMust, skipReturn), "mustSearcher"),
                     "currMust")
       ELSE IF ~b.shouldSearcher.present
         THEN [b |-> Flag(b, "nilDeref"), err |-> TRUE]
       ELSE Assign(CallNext(PutUnless(b, b.currShould, skipReturn), "shouldSearcher"),
                   "currShould"))

(***************************************************************************)
(* ConjunctionQueryScorer.Score: reads every constituent and reuses the    *)
(* first one as the composed match.                                        *)
(***************************************************************************)
RECURSIVE ReadAll(_, _)
ReadAll(b, cons) ==
  IF cons = << >> THEN b ELSE ReadAll(Read(b, Head(cons)), Tail(cons))

Score(b, cons) ==
  [b |-> IF \E i \in 1 .. Len(cons) : IndexInternalID(b, cons[i]) # b.currentID
           THEN Flag(ReadAll(b, cons), "badCons") ELSE ReadAll(b, cons),
   rv |-> cons[1]]

Tags(b, cons) ==
  [i \in 1 .. Len(cons) |-> IF cons[i] = Nil THEN "nil" ELSE b.objs[cons[i]].src]

(***************************************************************************)
(* Next, lines 181-205: the must-not child vetoes the candidate.           *)
(* next is "continue", "return" (a child call failed) or "go" (fall        *)
(* through to the should clause).                                          *)
(***************************************************************************)
(* Continued that leaves the loop (break) where the code continues.        *)
Continued_break(a) ==
  [b |-> a.b, err |-> a.err, next |-> "return"]

Continued(a) ==
  [b |-> a.b, err |-> a.err, next |-> IF a.err THEN "return" ELSE "continue"]

(* Excluded that advances the driving clause twice.                        *)
Excluded_pullTwice(b) ==
  Continued(advanceNextMust(advanceNextMust(b, Nil).b, Nil))

Excluded(b) == Continued(advanceNextMust(b, Nil))

Veto(b) ==
  IF b.currMustNot # Nil /\ IndexInternalID(b, b.currMustNot) = b.currentID
    THEN Excluded(Read(b, b.currMustNot))
  ELSE [b |-> ReadIf(b, b.currMustNot), err |-> FALSE, next |-> "go"]

MustNotAdvanced(r) ==
  IF r.err THEN [b |-> r.b, err |-> TRUE, next |-> "return"] ELSE Veto(r.b)

AdvanceMustNotTo(b) ==
  MustNotAdvanced(
    Assign(CallAdvance(Put(Read(b, b.currMustNot), b.currMustNot),
                       "mustNotSearcher", b.currentID),
           "currMustNot"))

(* ExcludeStep without the branch for a must-not match already at the      *)
(* candidate.                                                              *)
ExcludeStep_noEqual(b) ==
  IF b.currMustNot # Nil /\ IndexInternalID(b, b.currMustNot) < b.currentID
    THEN AdvanceMustNotTo(b)
  ELSE [b |-> ReadIf(b, b.currMustNot), err |-> FALSE, next |-> "go"]

ExcludeStep(b) ==
  IF b.currMustNot # Nil /\ IndexInternalID(b, b.currMustNot) < b.currentID
    THEN AdvanceMustNotTo(b)
  ELSE Veto(b)

(***************************************************************************)
(* Next, lines 207-277: the should clause, the emission and the advance of *)
(* the driving clause.  aligned is the identifier of the should match once *)
(* the should child has been aligned.                                      *)
(***************************************************************************)
AdvanceAfter(sc) == [a |-> advanceNextMust(sc.b, sc.rv), rv |-> sc.rv]

(* Emitted that keeps the scored match when the advance after it failed.   *)
Emitted_keepRv(x, tags, aligned) ==
  [b |-> x.a.b, rv |-> x.rv, scored |-> x.rv,
   cons |-> tags, err |-> x.a.err, done |-> TRUE, aligned |-> aligned]

Emitted(x, tags, aligned) ==
  [b |-> x.a.b, rv |-> IF x.a.err THEN Nil ELSE x.rv, scored |-> x.rv,
   cons |-> tags, err |-> x.a.err, done |-> TRUE, aligned |-> aligned]

PutShould(sc, cons) ==
  [b |-> IF Len(cons) = 2 THEN Put(sc.b, cons[2]) ELSE sc.b, rv |-> sc.rv]

(* Emit that recycles the should match once the scorer has used it.        *)
Emit_putShould(b, cons) ==
  Emitted(AdvanceAfter(PutShould(Score(b, cons), cons)), Tags(b, cons),
          IndexInternalID(b, b.currShould))

Emit(b, cons) ==
  Emitted(AdvanceAfter(Score(b, cons)), Tags(b, cons), IndexInternalID(b, b.currShould))

Rejected(a, aligned) ==
  [b |-> a.b, rv |-> Nil, scored |-> Nil, cons |-> << >>, err |-> a.err,
   done |-> a.err, aligned |-> aligned]

(* Reject that emits the candidate on the must match alone.                *)
Reject_emit(b) ==
  Emit(b, << b.currMust >>)

Reject(b) == Rejected(advanceNextMust(b, Nil), IndexInternalID(b, b.currShould))

(* BonusCons that leaves the should match out when a must match exists.    *)
BonusCons_mustOnly(b) ==
  IF b.currMust # Nil THEN << b.currMust >> ELSE << b.currShould >>

BonusCons(b) ==
  IF b.currMust # Nil THEN << b.currMust, b.currShould >> ELSE << b.currShould >>

ShouldAligned(b) ==
  IF b.currShould # Nil /\ IndexInternalID(b, b.currShould) = b.currentID
    THEN Emit(b, BonusCons(b))
  ELSE IF b.shouldSearcher.min = 0
    THEN Emit(b, << b.currMust >>)
  ELSE Reject(b)

(* ShouldAligned without the min_required test of line 233.                *)
ShouldAdvanced_strict(r) ==
  IF r.err
    THEN [b |-> r.b, rv |-> Nil, scored |-> Nil, cons |-> << >>,
          err |-> TRUE, done |-> TRUE, aligned |-> Nil]
  ELSE IF r.b.currShould # Nil /\ IndexInternalID(r.b, r.b.currShould) = r.b.currentID
    THEN Emit(Read(r.b, r.b.currShould), BonusCons(r.b))
  ELSE Reject(ReadIf(r.b, r.b.currShould))

ShouldAdvanced(r) ==
  IF r.err
    THEN [b |-> r.b, rv |-> Nil, scored |-> Nil, cons |-> << >>,
          err |-> TRUE, done |-> TRUE, aligned |-> Nil]
  ELSE ShouldAligned(ReadIf(r.b, r.b.currShould))

(* ShouldOptional without the Min() == 0 test of line 261.                 *)
ShouldOptional_absentOnly(b) ==
  IF ~b.shouldSearcher.present
    THEN Emit(b, << b.currMust >>)
  ELSE Reject(b)

ShouldOptional(b) ==
  IF ~b.shouldSearcher.present \/ b.shouldSearcher.min = 0
    THEN Emit(b, << b.currMust >>)
  ELSE Reject(b)

ShouldStep(b) ==
  IF b.currShould # Nil /\ IndexInternalID(b, b.currShould) < b.currentID
    THEN ShouldAdvanced(
           Assign(CallAdvance(Put(Read(b, b.currShould), b.currShould),
                              "shouldSearcher", b.currentID),
                  "currShould"))
  ELSE IF b.currShould # Nil /\ IndexInternalID(b, b.currShould) = b.currentID
    THEN Emit(Read(b, b.currShould), BonusCons(b))
  ELSE ShouldOptional(ReadIf(b, b.currShould))

(***************************************************************************)
(* One iteration of the loop of Next, and the record of it kept in trace.  *)
(***************************************************************************)
Decided(sh, cand) ==
  [b |-> sh.b, rv |-> sh.rv, scored |-> sh.scored, cons |-> sh.cons,
   err |-> sh.err, done |-> sh.done,
   it |-> [cand |-> cand, veto |-> FALSE, aligned |-> sh.aligned,
           emit |-> sh.rv # Nil, cons |-> sh.cons, after |-> sh.b.currentID]]

AfterExclude(ex, cand) ==
  IF ex.next = "go" THEN Decided(ShouldStep(ex.b), cand)
  ELSE [b |-> ex.b, rv |-> Nil, scored |-> Nil, cons |-> << >>,
        err |-> ex.err, done |-> ex.next = "return",
        it |-> [cand |-> cand, veto |-> TRUE, aligned |-> Nil,
                emit |-> FALSE, cons |-> << >>, after |-> ex.b.currentID]]

Body(b) == AfterExclude(ExcludeStep(b), b.currentID)

RECURSIVE Loop(_, _)
Iterated(r, tr) ==
  IF r.done
    THEN [b |-> r.b, rv |-> r.rv, scored |-> r.scored, cons |-> r.cons,
          err |-> r.err, trace |-> Append(tr, r.it)]
  ELSE Loop(r.b, Append(tr, r.it))

Loop(b, tr) ==
  IF b.currentID = Nil
    THEN [b |-> b, rv |-> Nil, scored |-> Nil, cons |-> << >>, err |-> FALSE, trace |-> tr]
  ELSE Iterated(Body(b), tr)

(***************************************************************************)
(* Next                                                                    *)
(***************************************************************************)
Failed(b) ==
  [b |-> b, rv |-> Nil, scored |-> Nil, cons |-> << >>, err |-> TRUE, trace |-> << >>]

EnsureInit(b) == IF ~b.initialized THEN initSearchers(b) ELSE OK(b)

Started(i) == IF i.err THEN Failed(i.b) ELSE Loop(i.b, << >>)

NextOp(b) == Started(EnsureInit(b))

(***************************************************************************)
(* Advance                                                                 *)
(***************************************************************************)
(* AdvanceChild without the nil test before the Put.                       *)
AdvanceChild_noNilCheck(b, child, curr, ID) ==
  IF ~b[child].present THEN OK(b)
  ELSE Assign(CallAdvance(Put(b, b[curr]), child, ID), curr)

AdvanceChild(b, child, curr, ID) ==
  IF ~b[child].present THEN OK(b)
  ELSE Assign(CallAdvance(PutIf(b, b[curr]), child, ID), curr)

AdvanceMust(r, ID) ==
  IF r.err THEN r ELSE AdvanceChild(r.b, "mustSearcher", "currMust", ID)

AdvanceShould(r, ID) ==
  IF r.err THEN r ELSE AdvanceChild(r.b, "shouldSearcher", "currShould", ID)

AdvanceMustNot(r, ID) ==
  IF r.err THEN r ELSE AdvanceChild(r.b, "mustNotSearcher", "currMustNot", ID)

Reposition(b, ID) ==
  AdvanceMustNot(AdvanceShould(AdvanceMust(EnsureInit(b), ID), ID), ID)

(* Advance that does not recompute currentID after moving the children.    *)
Repositioned_staleID(r) == IF r.err THEN Failed(r.b) ELSE NextOp(r.b)

Repositioned(r) == IF r.err THEN Failed(r.b) ELSE NextOp(SetCurrentID(r.b))

AdvanceOp(b, ID) == Repositioned(Reposition(b, ID))


(***************************************************************************)
(* Count: the sum of the counts of the must and the should child.  A       *)
(* child's count is an upper bound on the matches it produces; the model's *)
(* child reports the tightest one, the length of its stream.               *)
(***************************************************************************)
SearcherCount(c) == Len(c.ids)

(* Count that leaves the should child out.                                 *)
Count_mustOnly(b) ==
  IF b.mustSearcher.present THEN SearcherCount(b.mustSearcher) ELSE 0

Count(b) ==
  (IF b.mustSearcher.present THEN SearcherCount(b.mustSearcher) ELSE 0)
  + (IF b.shouldSearcher.present THEN SearcherCount(b.shouldSearcher) ELSE 0)

(***************************************************************************)
(* Close: must, then should, then must-not.  failing is the set of the     *)
(* children whose Close returns an error, log the children Close was       *)
(* called on, in order.                                                    *)
(***************************************************************************)
(* CloseChild that goes on to the next child after a Close failed.         *)
CloseChild_goOn(r, child, failing) ==
  IF ~r.b[child].present THEN r
  ELSE [b |-> [r.b EXCEPT ![child].closed = TRUE],
        err |-> r.err \/ child \in failing,
        log |-> Append(r.log, child)]

CloseChild(r, child, failing) ==
  IF r.err \/ ~r.b[child].present THEN r
  ELSE [b |-> [r.b EXCEPT ![child].closed = TRUE],
        err |-> child \in failing,
        log |-> Append(r.log, child)]

CloseOp(b, failing) ==
  CloseChild(CloseChild(CloseChild([b |-> b, err |-> FALSE, log |-> << >>],
                                   "mustSearcher", failing),
                        "shouldSearcher", failing),
             "mustNotSearcher", failing)

(***************************************************************************)
(* The end of a call: the match handed to the caller is the caller's, and  *)
(* the table keeps the matches the searcher still points at.  A match that *)
(* leaves the table neither recycled nor handed to the caller is leaked; a *)
(* match handed to the caller after it was put is a recycled result.       *)
(***************************************************************************)
Held(b) == { b.currMust, b.currShould, b.currMustNot } \ { Nil }

Handed(r) == IF r.err \/ r.rv = Nil THEN {} ELSE { r.rv }

Leaks(r) ==
  { d \in (DOMAIN r.b.objs) \ (Held(r.b) \cup Handed(r)) :
      r.b.objs[d].puts = 0 /\ ~r.b.objs[d].ret }

Outcome(r, op, arg) ==
  [op |-> op, arg |-> arg,
   kind |-> IF r.err THEN "error" ELSE IF r.rv = Nil THEN "end" ELSE "match",
   id |-> IF r.err THEN Nil ELSE IndexInternalID(r.b, r.rv),
   cons |-> IF r.err \/ r.rv = Nil THEN << >> ELSE r.cons]

Called(r, f) ==
  [fuse |-> IF r.b.error # "none" THEN f ELSE 0, calls |-> r.b.calls, err |-> r.err, error |-> r.b.error,
   rv |-> r.rv # Nil, scored |-> r.scored # Nil, failing |-> {}, log |-> << >>]

Return(r, op, arg, f) ==
  LET o == Outcome(r, op, arg)
  IN  /\ mustSearcher' = r.b.mustSearcher
      /\ shouldSearcher' = r.b.shouldSearcher
      /\ mustNotSearcher' = r.b.mustNotSearcher
      /\ currMust' = r.b.currMust
      /\ currShould' = r.b.currShould
      /\ currMustNot' = r.b.currMustNot
      /\ currentID' = r.b.currentID
      /\ initialized' = r.b.initialized
      /\ objs' = [d \in Held(r.b) |->
                    [r.b.objs[d] EXCEPT !.ret = @ \/ d \in Handed(r)]]
      /\ audit' = [r.b.audit EXCEPT
                     !.leaked = @ \/ Leaks(r) # {},
                     !.putReturned = @ \/ \E d \in Handed(r) : r.b.objs[d].puts > 0]
      /\ result' = o
      /\ out' = IF o.kind = "match" THEN Append(out, [id |-> o.id, cons |-> o.cons]) ELSE out
      /\ trace' = r.trace
      /\ call' = Called(r, f)

Streams == { NoSearcher } \cup { NewSearcher(S, 0) : S \in SUBSET IDs }

ShouldStreams ==
  { NoSearcher } \cup { NewSearcher(S, m) : S \in SUBSET IDs, m \in MinValues }

NoCall ==
  [fuse |-> 0, calls |-> 0, err |-> FALSE, error |-> "none",
   rv |-> FALSE, scored |-> FALSE, failing |-> {}, log |-> << >>]

Fresh ==
  /\ currMust = Nil
  /\ currShould = Nil
  /\ currMustNot = Nil
  /\ currentID = Nil
  /\ initialized = FALSE
  /\ objs = << >>
  /\ audit = NoAudit
  /\ closed = FALSE
  /\ result = [op |-> "none", arg |-> Nil, kind |-> "none", id |-> Nil, cons |-> << >>]
  /\ out = << >>
  /\ trace = << >>
  /\ onlyNext = TRUE
  /\ call = NoCall

Init ==
  /\ mustSearcher \in Streams
  /\ shouldSearcher \in ShouldStreams
  /\ mustNotSearcher \in Streams
  /\ Fresh

(***************************************************************************)
(* The calls of the caller.  A searcher is not used after Close, nor,      *)
(* except for Close, after a call that returned an error.                  *)
(***************************************************************************)
Usable == ~closed /\ result.kind # "error"

NextCall(f) ==
  /\ Usable
  /\ Return(NextOp(Fused(Self, f)), "Next", Nil, f)
  /\ UNCHANGED << closed, onlyNext >>

AdvanceCall(ID, f) ==
  /\ Usable
  /\ Return(AdvanceOp(Fused(Self, f), ID), "Advance", ID, f)
  /\ onlyNext' = FALSE
  /\ UNCHANGED closed

Closed(r, failing) ==
  /\ mustSearcher' = r.b.mustSearcher
  /\ shouldSearcher' = r.b.shouldSearcher
  /\ mustNotSearcher' = r.b.mustNotSearcher
  /\ result' = [op |-> "Close", arg |-> Nil,
                kind |-> IF r.err THEN "error" ELSE "none", id |-> Nil, cons |-> << >>]
  /\ call' = [NoCall EXCEPT !.err = r.err, !.failing = failing, !.log = r.log,
                            !.error = IF r.err THEN r.log[Len(r.log)] ELSE "none"]

CloseCall(failing) ==
  /\ ~closed
  /\ Closed(CloseOp(Self, failing), failing)
  /\ closed' = TRUE
  /\ trace' = << >>
  /\ UNCHANGED << currMust, currShould, currMustNot, currentID, initialized,
                  objs, audit, out, onlyNext >>

Next == NextCall(0)

Advance == \E ID \in IDs : AdvanceCall(ID, 0)

Close == CloseCall({})

Step == Next \/ Advance \/ Close

Spec == Init /\ [][Step]_vars

(***************************************************************************)
(* What the streams say, independent of the cursors.                       *)
(***************************************************************************)
MustIDs == Elems(mustSearcher.ids)

ShouldIDs == Elems(shouldSearcher.ids)

MustNotIDs == Elems(mustNotSearcher.ids)

DrivingIDs ==
  IF mustSearcher.present THEN MustIDs
  ELSE IF shouldSearcher.present THEN ShouldIDs
  ELSE {}

OutIDs == { out[i].id : i \in 1 .. Len(out) }

Exhausted == onlyNext /\ result.op = "Next" /\ result.kind = "end"

ShouldRequired ==
  mustSearcher.present /\ shouldSearcher.present /\ shouldSearcher.min > 0

Qualifying ==
  { d \in DrivingIDs \ MustNotIDs : ShouldRequired => d \in ShouldIDs }

After(S, d) ==
  LET later == { x \in S : x > d }
  IN  IF later = {} THEN Nil ELSE CHOOSE x \in later : \A y \in later : x <= y

(* C1: the identifiers of the matches returned by successive Next and      *)
(* Advance calls are strictly increasing: none is returned twice and none  *)
(* after a larger one.                                                     *)
C1_StrictlyIncreasing ==
  \A i \in 1 .. Len(out) : \A j \in 1 .. Len(out) : i < j => out[i].id < out[j].id

C1_Witness ==
  /\ Len(out) >= 2
  /\ ~onlyNext
  /\ result.op = "Advance" /\ result.kind = "match" /\ result.arg < out[1].id

(* C2: no identifier of the must-not stream is ever returned, whatever the *)
(* sequence of Next and Advance calls.                                     *)
C2_ExclusionPrecedence ==
  \A i \in 1 .. Len(out) : out[i].id \notin MustNotIDs

C2_Witness ==
  /\ mustSearcher.ids = << MaxID >>
  /\ ~shouldSearcher.present
  /\ mustNotSearcher.ids = << MaxID >>
  /\ result.op = "Advance" /\ result.kind = "end"
  /\ out = << >>

(* C3 as stated: after Next has been iterated to end-of-stream, the        *)
(* identifiers emitted are exactly those of the driving stream (must, or   *)
(* should when there is no must clause) that are not in the must-not       *)
(* stream, for every min_required of the should child.                     *)
C3_Original ==
  Exhausted => OutIDs = DrivingIDs \ MustNotIDs

(* C3 amended: as C3, and when both a must and a should clause exist and   *)
(* the should child has min_required > 0 the identifier must also appear   *)
(* in the should stream.                                                   *)
C3_ConjunctionCorrectness ==
  Exhausted => OutIDs = Qualifying

C3_Witness ==
  /\ Exhausted
  /\ ShouldRequired
  /\ mustNotSearcher.present
  /\ OutIDs # {}
  /\ OutIDs # MustIDs \ MustNotIDs

ExpectedCons(d) ==
  IF ~mustSearcher.present THEN << "shouldSearcher" >>
  ELSE IF d \in ShouldIDs THEN << "mustSearcher", "shouldSearcher" >>
  ELSE << "mustSearcher" >>

(* C4 as stated: with a must clause, every non-vetoed identifier of the    *)
(* must stream is emitted, scored from {must} alone when it is not in the  *)
(* should stream and from {must, should} when it is.                       *)
C4_Original ==
  mustSearcher.present =>
    /\ \A i \in 1 .. Len(out) : out[i].cons = ExpectedCons(out[i].id)
    /\ Exhausted => OutIDs = MustIDs \ MustNotIDs

(* C4 amended: with a must clause, a non-vetoed identifier that is in the  *)
(* must stream but not in the should stream is emitted, scored from {must} *)
(* alone, when the should child is absent or has min_required = 0; a       *)
(* non-vetoed identifier in both streams is always emitted, scored from    *)
(* {must, should}.                                                         *)
C4_ShouldAsBonus ==
  mustSearcher.present =>
    /\ \A i \in 1 .. Len(out) : out[i].cons = ExpectedCons(out[i].id)
    /\ Exhausted =>
         OutIDs = { d \in MustIDs \ MustNotIDs :
                      d \in ShouldIDs \/ ~shouldSearcher.present \/ shouldSearcher.min = 0 }

C4_Witness ==
  /\ Exhausted
  /\ mustSearcher.present /\ shouldSearcher.present /\ shouldSearcher.min = 0
  /\ \E i \in 1 .. Len(out) : out[i].cons = << "mustSearcher" >>
  /\ \E i \in 1 .. Len(out) : out[i].cons = << "mustSearcher", "shouldSearcher" >>

(* C5: in every iteration of the loop of Next in which the candidate is    *)
(* not vetoed, a should child exists with min_required > 0 and the should  *)
(* match after alignment is not at the candidate, nothing is emitted, the  *)
(* driving clause moves to its next match, and the loop goes on (the call  *)
(* ends there only with end-of-stream).                                    *)
C5_RequiredShouldRejects ==
  \A i \in 1 .. Len(trace) :
    (shouldSearcher.present /\ shouldSearcher.min > 0
       /\ ~trace[i].veto /\ trace[i].aligned # trace[i].cand)
    => /\ ~trace[i].emit
       /\ trace[i].after = After(DrivingIDs, trace[i].cand)
       /\ i = Len(trace) => (result.kind = "end" /\ trace[i].after = Nil)

C5_Witness ==
  /\ mustSearcher.present /\ shouldSearcher.present /\ shouldSearcher.min > 0
  /\ result.kind = "match"
  /\ \E i \in 1 .. Len(trace) :
       ~trace[i].veto /\ trace[i].aligned # Nil /\ trace[i].aligned > trace[i].cand

(* C6: with no must clause and a should clause, every match returned is   *)
(* scored from {should} alone, and Next iterated to end-of-stream returns  *)
(* exactly the identifiers of the should stream that are not in the        *)
(* must-not stream, in increasing order, whatever min_required is.         *)
C6_ShouldOnly ==
  (~mustSearcher.present /\ shouldSearcher.present) =>
    /\ \A i \in 1 .. Len(out) : out[i].cons = << "shouldSearcher" >>
    /\ Exhausted =>
         [i \in 1 .. Len(out) |-> out[i].id] = SortedSeq(ShouldIDs \ MustNotIDs)

C6_Witness ==
  /\ ~mustSearcher.present
  /\ shouldSearcher.ids = << 2, 3 >> /\ shouldSearcher.min = 1
  /\ mustNotSearcher.ids = << 3 >>
  /\ Exhausted
  /\ out = << [id |-> 2, cons |-> << "shouldSearcher" >>] >>

(***************************************************************************)
(* Next called again and again from b until it returns a match at or past  *)
(* ID, an error or end-of-stream.                                          *)
(***************************************************************************)
RECURSIVE NextUntil(_, _)
Until(r, ID) ==
  IF r.err \/ r.rv = Nil \/ IndexInternalID(r.b, r.rv) >= ID
    THEN Outcome(r, "Advance", ID)
  ELSE NextUntil(r.b, ID)

NextUntil(b, ID) == Until(NextOp(b), ID)

(* C7: from every reachable state and for every identifier, Advance        *)
(* returns what repeated Next calls would have returned first at or past   *)
(* that identifier: the same identifier scored from the same constituents, *)
(* or end-of-stream.                                                       *)
C7_AdvanceEquivalence ==
  [][ result'.op = "Advance" => result' = NextUntil(Self, result'.arg) ]_vars

C7_Witness ==
  /\ result.op = "Advance" /\ result.kind = "match"
  /\ Len(out) >= 2
  /\ \E d \in Qualifying : out[Len(out) - 1].id < d /\ d < result.id

(* C8: no DocumentMatch is put into the pool twice, and none is read after *)
(* it was put.                                                             *)
C8_NoDoubleRecycle ==
  /\ ~audit.doublePut
  /\ ~audit.readAfterPut
  /\ \A d \in DOMAIN objs : objs[d].puts <= 1

C8_Witness ==
  /\ mustSearcher.present /\ shouldSearcher.present /\ mustNotSearcher.present
  /\ ~onlyNext
  /\ Len(out) >= 2
  /\ Len(trace) >= 2

(* C9: when Next, iterated from the start, returns end-of-stream, every    *)
(* DocumentMatch obtained from a child has been put into the pool or       *)
(* returned to the caller; none is still held by the searcher.             *)
C9_NoLeakAtExhaustion ==
  Exhausted =>
    /\ ~audit.leaked
    /\ \A d \in DOMAIN objs : objs[d].puts > 0 \/ objs[d].ret

(* C10: a DocumentMatch returned to the caller is never put into the pool  *)
(* by the searcher, in the call that returns it or in a later one.         *)
C10_ResultNotRecycled ==
  /\ ~audit.putReturned
  /\ \A d \in DOMAIN objs : objs[d].ret => objs[d].puts = 0

C10_Witness ==
  /\ closed
  /\ ~onlyNext
  /\ Len(out) >= 2
  /\ \E i \in 1 .. Len(out) : out[i].cons = << "mustSearcher", "shouldSearcher" >>
  /\ \E i \in 1 .. Len(out) : out[i].cons = << "mustSearcher" >>

(***************************************************************************)
(* The searcher with failing children: any child call of Next or Advance   *)
(* may fail (the fuse-th one of the call does), and so may any child's     *)
(* Close.  The streams are over 1..MaxErrID.                               *)
(***************************************************************************)
MaxErrID == 2

MaxFuse == 6

ErrStreams == { NoSearcher } \cup { NewSearcher(S, 0) : S \in SUBSET (1 .. MaxErrID) }

ErrShouldStreams ==
  { NoSearcher } \cup { NewSearcher(S, m) : S \in SUBSET (1 .. MaxErrID), m \in MinValues }

InitErr ==
  /\ mustSearcher \in ErrStreams
  /\ shouldSearcher \in ErrShouldStreams
  /\ mustNotSearcher \in ErrStreams
  /\ Fresh

NextErr == \E f \in 0 .. MaxFuse : NextCall(f)

AdvanceErr == \E ID \in 1 .. MaxErrID : \E f \in 0 .. MaxFuse : AdvanceCall(ID, f)

CloseErr == \E failing \in SUBSET Elems(Children) : CloseCall(failing)

StepErr == NextErr \/ AdvanceErr \/ CloseErr

SpecErr == InitErr /\ [][StepErr]_vars

(***************************************************************************)
(* C11: error propagation without partial results.  A Next or Advance call *)
(* in which a child's Next or Advance fails returns an error, and a call   *)
(* returns an error only then; the call that returns an error returns no   *)
(* match, also when the scorer had composed one before the driving clause  *)
(* failed to advance; and the failing child call is the last child call it *)
(* makes: nothing is retried.                                              *)
(***************************************************************************)
C11_ErrorPropagation ==
  result.op \in { "Next", "Advance" } =>
    /\ call.err <=> call.error \in Elems(Children)
    /\ call.err <=> result.kind = "error"
    /\ call.err => /\ ~call.rv
                   /\ result.id = Nil
                   /\ result.cons = << >>
                   /\ call.calls = call.fuse

C11_Witness ==
  /\ result.op = "Next"
  /\ call.err
  /\ call.scored
  /\ call.error = "mustSearcher"

(***************************************************************************)
(* C12: Close closes the present children in the order must, should,       *)
(* must-not, each once, up to and including the first one whose Close      *)
(* fails; it returns that child's error and closes no child after it; it   *)
(* returns no error when no present child's Close fails.                   *)
(***************************************************************************)
PresentChildren == SelectSeq(Children, LAMBDA c : Self[c].present)

FailingAt == { i \in 1 .. Len(PresentChildren) : PresentChildren[i] \in call.failing }

LastClosed ==
  IF FailingAt = {} THEN Len(PresentChildren)
  ELSE CHOOSE i \in FailingAt : \A j \in FailingAt : i <= j

C12_CloseOrder ==
  result.op = "Close" =>
    /\ call.log = SubSeq(PresentChildren, 1, LastClosed)
    /\ call.err <=> FailingAt # {}
    /\ call.err <=> result.kind = "error"
    /\ call.err => call.error = PresentChildren[LastClosed]
    /\ \A c \in Elems(Children) : Self[c].closed <=> c \in Elems(call.log)

C12_Witness ==
  /\ result.op = "Close"
  /\ call.err
  /\ call.log = << "mustSearcher", "shouldSearcher" >>
  /\ call.failing = { "shouldSearcher", "mustNotSearcher" }
  /\ mustNotSearcher.present
  /\ ~mustNotSearcher.closed

(***************************************************************************)
(* C13: end-of-stream is stable.  Once a call has returned end-of-stream   *)
(* (no match, no error), the next Next or Advance call returns             *)
(* end-of-stream too, and so, step by step, does every later one.          *)
(***************************************************************************)
C13_EndIsStable ==
  [][ (/\ result.kind = "end"
       /\ result.op \in { "Next", "Advance" }
       /\ result'.op \in { "Next", "Advance" })
      => result'.kind = "end" ]_vars

C13_Witness ==
  /\ result.op = "Next"
  /\ result.kind = "end"
  /\ onlyNext
  /\ trace = << >>
  /\ out = << >>
  /\ mustSearcher.present
  /\ mustSearcher.ids # << >>

(***************************************************************************)
(* C14: the searcher honours the Advance contract of its children.  When   *)
(* Advance(ID) is called while the most recently returned match has an     *)
(* identifier >= ID, the call returns that same match again: it does not   *)
(* move on to a later match.                                               *)
(***************************************************************************)
C14_AdvanceHonoursContract ==
  [][ (/\ result.kind = "match"
       /\ result'.op = "Advance"
       /\ result.id >= result'.arg)
      => (result'.kind = "match" /\ result'.id = result.id) ]_vars

(***************************************************************************)
(* C15: a searcher with neither a must nor a should clause returns         *)
(* end-of-stream from every Next and Advance call, whatever its must-not   *)
(* stream: it never has a candidate, its loop never iterates, and the      *)
(* scorer is never invoked.                                                *)
(***************************************************************************)
C15_NoPositiveClause ==
  (~mustSearcher.present /\ ~shouldSearcher.present) =>
    /\ result.op \in { "Next", "Advance" } => result.kind = "end"
    /\ currentID = Nil
    /\ out = << >>
    /\ trace = << >>
    /\ ~call.scored

C15_Witness ==
  /\ ~mustSearcher.present
  /\ ~shouldSearcher.present
  /\ mustNotSearcher.present
  /\ Current(mustNotSearcher) # Nil
  /\ ~onlyNext
  /\ result.op = "Next"
  /\ result.kind = "end"

(***************************************************************************)
(* The scenario of the specification: must stream [1,3,5], should stream   *)
(* [3,4] with min_required 0, must-not stream [4].  The specification      *)
(* starts from the scenario and from every searcher over sub-streams of    *)
(* it.                                                                     *)
(***************************************************************************)
ScenarioMust == << 1, 3, 5 >>

ScenarioShould == << 3, 4 >>

ScenarioMustNot == << 4 >>

ScenarioIDs == Elems(ScenarioMust) \cup Elems(ScenarioShould) \cup Elems(ScenarioMustNot)

SubStreams(ids, mins) ==
  { NoSearcher } \cup { NewSearcher(S, m) : S \in SUBSET Elems(ids), m \in mins }

InitScenario ==
  /\ mustSearcher \in SubStreams(ScenarioMust, { 0 })
  /\ shouldSearcher \in SubStreams(ScenarioShould, MinValues)
  /\ mustNotSearcher \in SubStreams(ScenarioMustNot, { 0 })
  /\ Fresh

AdvanceScenario == \E ID \in ScenarioIDs : AdvanceCall(ID, 0)

StepScenario == Next \/ AdvanceScenario \/ Close

SpecScenario == InitScenario /\ [][StepScenario]_vars

(***************************************************************************)
(* C16: in the scenario, repeated Next returns 1, 3 and 5 in that order    *)
(* and then end-of-stream; 3 is scored from the must and the should match, *)
(* 1 and 5 from the must match alone.                                      *)
(***************************************************************************)
IsScenario ==
  /\ mustSearcher.present /\ mustSearcher.ids = ScenarioMust
  /\ shouldSearcher.present /\ shouldSearcher.ids = ScenarioShould
  /\ shouldSearcher.min = 0
  /\ mustNotSearcher.present /\ mustNotSearcher.ids = ScenarioMustNot

ScenarioOut ==
  << [id |-> 1, cons |-> << "mustSearcher" >>],
     [id |-> 3, cons |-> << "mustSearcher", "shouldSearcher" >>],
     [id |-> 5, cons |-> << "mustSearcher" >>] >>

C16_Scenario ==
  (IsScenario /\ onlyNext) =>
    /\ Len(out) <= Len(ScenarioOut)
    /\ out = SubSeq(ScenarioOut, 1, Len(out))
    /\ result.kind = "match" => Len(out) > 0 /\ result.id = out[Len(out)].id
    /\ result.kind = "end" => out = ScenarioOut
    /\ result.kind \in { "none", "match", "end" }

C16_Witness ==
  /\ IsScenario
  /\ onlyNext
  /\ result.op = "Next"
  /\ result.kind = "end"
  /\ out = ScenarioOut

(***************************************************************************)
(* C17: the driving-clause invariant.  Once the searcher is initialized,   *)
(* after every Next or Advance call currentID is the identifier of         *)
(* currMust when a must clause exists and currMust is present, the         *)
(* identifier of currShould when no must clause exists and currShould is   *)
(* present, and none otherwise; that is the match the driving child is     *)
(* positioned at.  The must-not match never determines currentID and is    *)
(* never among the constituents handed to the scorer.                      *)
(***************************************************************************)
DrivingID ==
  IF mustSearcher.present /\ currMust # Nil THEN objs[currMust].IndexInternalID
  ELSE IF ~mustSearcher.present /\ currShould # Nil THEN objs[currShould].IndexInternalID
  ELSE Nil

DrivingPosition ==
  IF mustSearcher.present THEN Current(mustSearcher)
  ELSE IF shouldSearcher.present THEN Current(shouldSearcher)
  ELSE Nil

C17_DrivingClause ==
  /\ (initialized /\ result.kind # "error") =>
       /\ currentID = DrivingID
       /\ currentID = DrivingPosition
  /\ \A i \in 1 .. Len(trace) : "mustNotSearcher" \notin Elems(trace[i].cons)
  /\ \A i \in 1 .. Len(out) : "mustNotSearcher" \notin Elems(out[i].cons)

C17_Witness ==
  /\ initialized
  /\ ~mustSearcher.present
  /\ currShould # Nil
  /\ currMustNot # Nil
  /\ objs[currMustNot].IndexInternalID # currentID
  /\ result.kind = "match"
  /\ currentID = DrivingID

(***************************************************************************)
(* C18: Count is an upper bound.  The number of matches the searcher has   *)
(* returned never exceeds Count() = must.count + should.count, an absent   *)
(* clause counting 0 and the must-not child not counted; so it does not    *)
(* when the searcher has been iterated to exhaustion.                      *)
(***************************************************************************)
C18_CountIsUpperBound == Len(out) <= Count(Self)

C18_Witness ==
  /\ Exhausted
  /\ ~mustSearcher.present
  /\ mustNotSearcher.present
  /\ Len(out) >= 2
  /\ Len(out) = Count(Self)

(***************************************************************************)
(* C19: every Next call terminates.  Each iteration of its loop is about a *)
(* match of the driving stream (must if present, else should) and pulls    *)
(* exactly one next() from the driving child, which moves the candidate to *)
(* the following match of that stream; only the last iteration returns a   *)
(* match; so the loop ends, with a match or with currentID none, after at  *)
(* most as many iterations as the driving stream had matches left.         *)
(***************************************************************************)
Remaining(d) == { x \in DrivingIDs : x >= d }

C19_NextTerminates ==
  /\ \A i \in 1 .. Len(trace) :
       /\ trace[i].cand \in DrivingIDs
       /\ trace[i].after = After(DrivingIDs, trace[i].cand)
       /\ i < Len(trace) => ~trace[i].emit /\ trace[i + 1].cand = trace[i].after
  /\ trace # << >> => Len(trace) <= Cardinality(Remaining(trace[1].cand))
  /\ result.op \in { "Next", "Advance" } =>
       \/ result.kind = "match" /\ trace # << >> /\ trace[Len(trace)].emit
       \/ /\ result.kind = "end" /\ currentID = Nil
          /\ \A i \in 1 .. Len(trace) : ~trace[i].emit

C19_Witness ==
  /\ result.op = "Next"
  /\ result.kind = "end"
  /\ Len(trace) >= 3
  /\ Len(trace) = Cardinality(DrivingIDs)

(***************************************************************************)
(* C20: no absent match is dereferenced or recycled.  In every sequence of *)
(* Next and Advance calls without a failing child call, no nil match is    *)
(* read, DocumentMatchPool.Put is never called with nil, and every         *)
(* constituent handed to the scorer is a present match whose identifier is *)
(* currentID; a constituent list that starts with the must match is built  *)
(* only by a searcher that has a must clause.                              *)
(***************************************************************************)
C20_NoAbsentMatch ==
  /\ ~audit.putNil
  /\ ~audit.nilDeref
  /\ ~audit.badCons
  /\ \A i \in 1 .. Len(trace) :
       /\ "nil" \notin Elems(trace[i].cons)
       /\ trace[i].emit => trace[i].cons # << >>
       /\ "mustSearcher" \in Elems(trace[i].cons) => mustSearcher.present
       /\ "shouldSearcher" \in Elems(trace[i].cons) =>
            shouldSearcher.present /\ trace[i].aligned = trace[i].cand

C20_Witness ==
  /\ result.op = "Advance"
  /\ result.kind = "match"
  /\ result.cons = << "mustSearcher" >>
  /\ shouldSearcher.present
  /\ currShould = Nil
  /\ mustNotSearcher.present
  /\ currMustNot = Nil
  /\ Len(out) >= 2

====
